---- MODULE Spec2Model ----
\* Model of josemltools/eda.py: the outlier, skew and distribution helpers.
\* Every function is a stateless computation over a table (a pandas DataFrame)
\* handed in by the caller; one behaviour is one call made on one table.
\*
\* Numbers: the cells of the numeric columns are integers or missing (NaN).
\* Quartiles, IQR and the Tukey fences are held exactly, in units of 1/Scale,
\* so 2.25 is 18 and 8.5 is 68.  Percentages are held in hundredths.
\* Rows are named by their position 1..N (pandas index 0..N-1).
EXTENDS Integers, Sequences, FiniteSets

\* ------------------------------------------------------------------ bounds
MaxRows == 5

\* ------------------------------------------------------------------ numbers
\* The missing value (numpy.nan): no computed number equals it.
NaN == -999999

\* Fixed-point unit: quartiles fall on quarters, 1.5*iqr on eighths.
Scale == 8

IsNaN(x) == x = NaN

\* IEEE arithmetic and comparison: NaN propagates, every comparison with NaN is False.
Sub(x, y) == IF IsNaN(x) \/ IsNaN(y) THEN NaN ELSE x - y
Add(x, y) == IF IsNaN(x) \/ IsNaN(y) THEN NaN ELSE x + y
Lt(x, y) == ~IsNaN(x) /\ ~IsNaN(y) /\ x < y
Gt(x, y) == ~IsNaN(x) /\ ~IsNaN(y) /\ x > y
Le(x, y) == ~IsNaN(x) /\ ~IsNaN(y) /\ x <= y
Ge(x, y) == ~IsNaN(x) /\ ~IsNaN(y) /\ x >= y

\* 1.5 * x for x in units of 1/Scale (x is always an even number of eighths).
OneAndHalf(x) == IF IsNaN(x) THEN NaN ELSE (3 * x) \div 2

\* A cell of a numeric column in units of 1/Scale.
Fixed(v) == IF IsNaN(v) THEN NaN ELSE Scale * v

\* ------------------------------------------------------------------ the table
Columns == <<"x", "y", "label">>

\* dtype of each column: "label" holds strings, the others floats.
Dtype(c) == IF c = "label" THEN "object" ELSE "number"

\* The cells of column x; column y is either all missing or all 3.
ValuesX == {NaN, 1, 2, 9}
ValuesY == {NaN, 3}

ConstSeq(n, v) == [i \in 1..n |-> v]

\* The columns of the spec's worked examples.
ExampleColumns == { <<1, 2, 3, 4, 5, 100>>, <<5, 5, 5, 5>> }

BoundedTables ==
    UNION { { [x |-> cx, y |-> cy, label |-> ConstSeq(n, "r")] :
                cx \in [1..n -> ValuesX], cy \in { ConstSeq(n, v) : v \in ValuesY } } : n \in 0..MaxRows }

ExampleTables ==
    { [x |-> cx, y |-> ConstSeq(Len(cx), 3), label |-> ConstSeq(Len(cx), "r")] :
        cx \in ExampleColumns }

Tables == BoundedTables \cup ExampleTables

\* len(df): the columns share the row count.
LenDf(t) == Len(t.x)

\* df.select_dtypes(include=np.number).columns, in the table's column order.
NumericColumns == SelectSeq(Columns, LAMBDA c : Dtype(c) = "number")

SeqToSet(s) == { s[i] : i \in 1..Len(s) }

\* ------------------------------------------------------------------ Series.quantile
\* Series.dropna(): quantile skips the missing values.
DropNa(s) == SelectSeq(s, LAMBDA v : ~IsNaN(v))

RECURSIVE Insert(_, _)
Insert(v, s) ==
    IF s = <<>> THEN <<v>>
    ELSE IF v <= Head(s) THEN <<v>> \o s
    ELSE <<Head(s)>> \o Insert(v, Tail(s))

RECURSIVE SortSeq(_)
SortSeq(s) == IF s = <<>> THEN <<>> ELSE Insert(Head(s), SortSeq(Tail(s)))

\* Mutant of Interpolate: the lower of the two closest ranks, no interpolation.
InterpolateLower(xs, i) == Scale * xs[((i * (Len(xs) - 1)) \div 4) + 1]

\* Linear interpolation between the closest ranks at position (i/4)*(n-1) of the
\* sorted values xs; the result is in units of 1/Scale.
Interpolate(xs, i) ==
    LET n    == Len(xs)
        pos4 == i * (n - 1)
        lo   == pos4 \div 4
        fr   == pos4 % 4
        a    == xs[lo + 1]
        b    == IF fr = 0 THEN a ELSE xs[lo + 2]
    IN  Scale * a + (Scale \div 4) * fr * (b - a)

\* Mutant of Quantile: the ranks are taken in the column without sorting it.
QuantileUnsorted(s, i) ==
    LET xs == DropNa(s)
    IN  IF xs = <<>> THEN NaN ELSE Interpolate(xs, i)

\* df[col].quantile(i/4), interpolation="linear"; NaN when no value is present.
Quantile(s, i) ==
    LET xs == SortSeq(DropNa(s))
    IN  IF xs = <<>> THEN NaN ELSE Interpolate(xs, i)

\* ------------------------------------------------------------------ state
VARIABLES
    df,        \* the table the caller passes in; never mutated
    pc,        \* "ready" before the call, "returned" or "raised" after it
    call,      \* the function called and its arguments
    exc,       \* the exception that ended the call, "" when none
    stats,     \* study_column_continuous: quants, iqr, lowerBound, upperBound, skew
    stdout,    \* the classification lines printed by the call
    summary,   \* study_column_continuous: <<len(outliers), percentage>> once printed
    outliers,  \* study_column_continuous: the rows returned
    report,    \* count_outliers_per_column: the table returned
    charts     \* what the call handed to the plotting library

vars == <<df, pc, call, exc, stats, stdout, summary, outliers, report, charts>>

NoCall == [fn |-> "", col |-> "", skew |-> FALSE, percent |-> FALSE,
           target |-> "", print_stats |-> FALSE]

NoStats == [quants |-> <<NaN, NaN, NaN>>, iqr |-> NaN, lowerBound |-> NaN,
            upperBound |-> NaN, skew |-> NaN]

NoReport == [columns |-> <<>>, rows |-> <<>>]

Init ==
    /\ df \in Tables
    /\ pc = "ready"
    /\ call = NoCall
    /\ exc = ""
    /\ stats = NoStats
    /\ stdout = <<>>
    /\ summary = <<>>
    /\ outliers = <<>>
    /\ report = NoReport
    /\ charts = <<>>

\* ------------------------------------------------------------------ study_column_continuous
\* quants[i-1] for i in range(1, 4).
Quants(s) == [i \in 1..3 |-> Quantile(s, i)]

Iqr(q) == Sub(q[3], q[1])

LowerBound(q) == Sub(q[1], OneAndHalf(Iqr(q)))

UpperBound(q) == Add(q[3], OneAndHalf(Iqr(q)))

\* Mutant of IsOutlier: a value on a bound counts as outside.
IsOutlierInclusive(v, lowerBound, upperBound) ==
    Le(Fixed(v), lowerBound) \/ Ge(Fixed(v), upperBound)

\* The row mask (df[col] < lowerBound) | (df[col] > upperBound) for one cell.
IsOutlier(v, lowerBound, upperBound) ==
    Lt(Fixed(v), lowerBound) \/ Gt(Fixed(v), upperBound)

\* df[mask]: the positions of the rows kept, in table order.
Positions(n) == [i \in 1..n |-> i]

OutlierRows(s, lowerBound, upperBound) ==
    SelectSeq(Positions(Len(s)), LAMBDA i : IsOutlier(s[i], lowerBound, upperBound))

\* Skew is held in hundredths; the thresholds 1 and 0.5 are 100 and 50.
SkewUnit == 100

\* df[col].skew() is computed by pandas; any of these may come back
\* (NaN for fewer than three values).
SkewValues == {NaN, -101, -100, -51, -50, 0, 50, 51, 100, 101}

HighlySkewed == "The distribution is highly skewed"

ModeratelySkewed == "The distribution is moderately skewed"

\* Mutant of SkewMessages: 1 and -1 are taken as highly skewed.
SkewMessagesInclusive(skew) ==
    IF Le(skew, -SkewUnit) \/ Ge(skew, SkewUnit)
      THEN <<HighlySkewed>>
    ELSE IF \/ (Ge(skew, -SkewUnit) /\ Lt(skew, -(SkewUnit \div 2)))
            \/ (Gt(skew, SkewUnit \div 2) /\ Le(skew, SkewUnit))
      THEN <<ModeratelySkewed>>
    ELSE <<>>

\* The if / elif of the skew study: the lines it prints (none in the else case).
SkewMessages(skew) ==
    IF Lt(skew, -SkewUnit) \/ Gt(skew, SkewUnit)
      THEN <<HighlySkewed>>
    ELSE IF \/ (Ge(skew, -SkewUnit) /\ Lt(skew, -(SkewUnit \div 2)))
            \/ (Gt(skew, SkewUnit \div 2) /\ Le(skew, SkewUnit))
      THEN <<ModeratelySkewed>>
    ELSE <<>>

\* round(x, 2) of x = num/den >= 0, in hundredths: round half to even.
Round2(num, den) ==
    LET scaled == 100 * num
        q == scaled \div den
        r == scaled % den
    IN  IF 2 * r < den THEN q
        ELSE IF 2 * r > den THEN q + 1
        ELSE IF q % 2 = 0 THEN q ELSE q + 1

\* (count*100)/total, rounded to 2 places, in hundredths.
Percentage(count, total) == Round2(count * 100, total)

\* study_column_continuous(df, col, print_stats=False, plot=False, skew=sk,
\* gaussian_test=False); skewValue is what df[col].skew() returns.
StudyColumnContinuous(col, sk, skewValue) ==
    LET s       == df[col]
        q       == Quants(s)
        lo      == LowerBound(q)
        hi      == UpperBound(q)
        rows    == OutlierRows(s, lo, hi)
    IN  /\ pc = "ready"
        /\ call' = [NoCall EXCEPT !.fn = "study_column_continuous", !.col = col, !.skew = sk]
        /\ stats' = [quants |-> q, iqr |-> Iqr(q), lowerBound |-> lo, upperBound |-> hi,
                     skew |-> IF sk THEN skewValue ELSE NaN]
        /\ stdout' = IF sk THEN SkewMessages(skewValue) ELSE <<>>
        /\ IF LenDf(df) = 0
             THEN \* len(outliers)*100 / len(df) divides by zero
                  /\ pc' = "raised"
                  /\ exc' = "ZeroDivisionError"
                  /\ summary' = <<>>
                  /\ outliers' = <<>>
             ELSE /\ pc' = "returned"
                  /\ exc' = ""
                  /\ summary' = <<Len(rows), Percentage(Len(rows), LenDf(df))>>
                  /\ outliers' = rows
        /\ UNCHANGED <<df, report, charts>>

\* ------------------------------------------------------------------ count_outliers_per_column
\* df[col].quantile(0.75) + 1.5*(df[col].quantile(0.75) - df[col].quantile(0.25))
HighFence(s) == Add(Quantile(s, 3), OneAndHalf(Sub(Quantile(s, 3), Quantile(s, 1))))

\* df[col].quantile(0.25) - 1.5*(df[col].quantile(0.75) - df[col].quantile(0.25))
LowFence(s) == Sub(Quantile(s, 1), OneAndHalf(Sub(Quantile(s, 3), Quantile(s, 1))))

\* Mutant of NumHighOutliers: the high fence is measured from the first quartile.
NumHighOutliersFromQ1(s) ==
    LET fence == Add(Quantile(s, 1), OneAndHalf(Sub(Quantile(s, 3), Quantile(s, 1))))
    IN  Cardinality({ i \in 1..Len(s) : Gt(Fixed(s[i]), fence) })

\* len(df[df[col] > high fence])
NumHighOutliers(s) ==
    LET fence == HighFence(s)
    IN  Cardinality({ i \in 1..Len(s) : Gt(Fixed(s[i]), fence) })

\* len(df[df[col] < low fence])
NumLowOutliers(s) ==
    LET fence == LowFence(s)
    IN  Cardinality({ i \in 1..Len(s) : Lt(Fixed(s[i]), fence) })

\* The columns the result is created with.
ReportHeader == <<"Column", "Number of high outliers", "Number of low outliers">>

\* The keys of the record appended for each column, in the order written.
RecordKeys == <<"Column", "Number of High outliers", "Number of Low outliers",
                "High outliers %", "Low outliers %">>

\* The record appended for column col of table t (len_df = len(t) > 0).
OutlierRecord(t, col) ==
    LET high == NumHighOutliers(t[col])
        low  == NumLowOutliers(t[col])
    IN  [k \in SeqToSet(RecordKeys) |->
            CASE k = "Column" -> col
              [] k = "Number of High outliers" -> high
              [] k = "Number of Low outliers" -> low
              [] k = "High outliers %" -> Percentage(high, LenDf(t))
              [] k = "Low outliers %" -> Percentage(low, LenDf(t))]

\* DataFrame.append(record, ignore_index=True): a key that is no column of the
\* frame becomes a new column after the existing ones; a column the record has
\* no key for is left missing in the new row (the row has no entry for it).
DataFrameAppend(frame, rec) ==
    [columns |-> frame.columns \o
                 SelectSeq(RecordKeys, LAMBDA k : k \in DOMAIN rec /\ k \notin SeqToSet(frame.columns)),
     rows    |-> Append(frame.rows, rec)]

RECURSIVE AppendAll(_, _, _)
AppendAll(frame, cols, t) ==
    IF cols = <<>> THEN frame
    ELSE AppendAll(DataFrameAppend(frame, OutlierRecord(t, Head(cols))), Tail(cols), t)

\* The whole of count_outliers_per_column(t): the exception it ends with, or the frame.
CountResult(t) ==
    IF NumericColumns # <<>> /\ LenDf(t) = 0
      THEN \* (num_high_outliers*100)/len_df divides by zero in the first iteration
           [exc |-> "ZeroDivisionError", frame |-> NoReport]
      ELSE [exc |-> "",
            frame |-> AppendAll([columns |-> ReportHeader, rows |-> <<>>], NumericColumns, t)]

CountOutliersPerColumn ==
    LET r == CountResult(df)
    IN  /\ pc = "ready"
        /\ call' = [NoCall EXCEPT !.fn = "count_outliers_per_column"]
        /\ pc' = IF r.exc = "" THEN "returned" ELSE "raised"
        /\ exc' = r.exc
        /\ report' = r.frame
        /\ UNCHANGED <<df, stats, stdout, summary, outliers, charts>>

\* ------------------------------------------------------------------ plot_outliers_per_column
\* types = ["High", "Low"]
Types == <<"High", "Low">>

\* range(types): range() of a list raises TypeError, so the loop body that
\* would draw the two bar charts is never entered.
RangeOfTypes == [exc |-> "TypeError", indices |-> <<>>]

PlotOutliersPerColumn(percent) ==
    LET r == CountResult(df)
    IN  /\ pc = "ready"
        /\ call' = [NoCall EXCEPT !.fn = "plot_outliers_per_column", !.percent = percent]
        /\ pc' = IF r.exc = "" /\ RangeOfTypes.exc = "" THEN "returned" ELSE "raised"
        /\ exc' = IF r.exc # "" THEN r.exc ELSE RangeOfTypes.exc
        /\ charts' = <<>>
        /\ UNCHANGED <<df, stats, stdout, summary, outliers, report>>

\* ------------------------------------------------------------------ study_column_discrete
RECURSIVE Unique(_)
\* Series.unique(): the distinct values in first-seen order (NaN is one of them).
Unique(s) ==
    IF s = <<>> THEN <<>>
    ELSE LET init == Unique(SubSeq(s, 1, Len(s) - 1))
             v    == s[Len(s)]
         IN  IF v \in SeqToSet(init) THEN init ELSE Append(init, v)

\* The number of rows of s holding v.
Occurrences(s, v) == Cardinality({ i \in 1..Len(s) : s[i] = v })

RECURSIVE InsertByCount(_, _)
\* Stable insertion in descending count order: a later pair goes after its ties.
InsertByCount(p, ps) ==
    IF ps = <<>> THEN <<p>>
    ELSE IF p[2] > Head(ps)[2] THEN <<p>> \o ps
    ELSE <<Head(ps)>> \o InsertByCount(p, Tail(ps))

RECURSIVE SortByCount(_)
SortByCount(ps) ==
    IF ps = <<>> THEN <<>>
    ELSE InsertByCount(ps[Len(ps)], SortByCount(SubSeq(ps, 1, Len(ps) - 1)))

\* Series.value_counts(): <<value, count>> of the non-missing values, by
\* descending count, ties in first-seen order.
ValueCounts(s) ==
    LET u == Unique(DropNa(s))
    IN  SortByCount([i \in 1..Len(u) |-> <<u[i], Occurrences(s, u[i])>>])

\* sns.barplot(x=df[col].unique(), y=df[col].value_counts()): the two vectors
\* are paired by position, bar i is <<x[i], y[i]>>.
BarPlot(x, y) == [i \in 1..Len(x) |-> <<x[i], y[i][2]>>]

NoChart == [kind |-> "", x |-> "", hue |-> "", bars |-> <<>>]

\* study_column_discrete(df, col, target, print_stats)
StudyColumnDiscrete(col, target, print_stats) ==
    LET s == df[col]
        x == Unique(s)
        y == ValueCounts(s)
    IN  /\ pc = "ready"
        /\ call' = [NoCall EXCEPT !.fn = "study_column_discrete", !.col = col,
                                  !.target = target, !.print_stats = print_stats]
        /\ IF print_stats /\ DropNa(s) = <<>>
             THEN \* df[col].mode()[0]: the mode of no values has no element 0
                  /\ pc' = "raised" /\ exc' = "KeyError" /\ charts' = <<>>
             ELSE IF target # ""
             THEN /\ pc' = "returned" /\ exc' = ""
                  /\ charts' = <<[NoChart EXCEPT !.kind = "countplot", !.x = col, !.hue = target]>>
             ELSE IF Len(x) # Len(y)
             THEN \* a missing value is in unique() and not in value_counts()
                  /\ pc' = "raised" /\ exc' = "ValueError" /\ charts' = <<>>
             ELSE /\ pc' = "returned" /\ exc' = ""
                  /\ charts' = <<[NoChart EXCEPT !.kind = "barplot", !.bars = BarPlot(x, y)]>>
        /\ UNCHANGED <<df, stats, stdout, summary, outliers, report>>

\* The target columns a caller passes: none, or the label column.
Targets == {"", "label"}

\* ------------------------------------------------------------------ specification
Next ==
    \/ \E col \in SeqToSet(NumericColumns), skewValue \in SkewValues :
          StudyColumnContinuous(col, TRUE, skewValue)
    \/ \E col \in SeqToSet(NumericColumns) : StudyColumnContinuous(col, FALSE, NaN)
    \/ CountOutliersPerColumn
    \/ \E percent \in BOOLEAN : PlotOutliersPerColumn(percent)
    \/ \E col \in SeqToSet(NumericColumns), target \in Targets, print_stats \in BOOLEAN :
          StudyColumnDiscrete(col, target, print_stats)

Spec == Init /\ [][Next]_vars

\* ------------------------------------------------------------------ properties
Studied == call.fn = "study_column_continuous"

Counted == call.fn = "count_outliers_per_column"

\* The column a finished study_column_continuous call was about.
StudiedColumn == df[call.col]

\* Present(s): the column holds at least one value that is not missing.
Present(s) == \E i \in 1..Len(s) : s[i] # NaN

\* v < q1 - 1.5*(q3 - q1), all in whole numbers: 2v < 5*q1 - 3*q3 (q1, q3 in 1/Scale).
BelowFences(v, q1, q3) == v # NaN /\ q1 # NaN /\ 2 * Scale * v < 5 * q1 - 3 * q3

\* v > q3 + 1.5*(q3 - q1), all in whole numbers: 2v > 5*q3 - 3*q1.
AboveFences(v, q1, q3) == v # NaN /\ q1 # NaN /\ 2 * Scale * v > 5 * q3 - 3 * q1

StrictlyIncreasing(s) == \A i, j \in 1..Len(s) : i < j => s[i] < s[j]

\* C1: study_column_continuous returns exactly the rows whose value v has
\* v < q1 - 1.5*(q3 - q1) or v > q3 + 1.5*(q3 - q1), each once, q1 and q3 being
\* the column's 25th and 75th percentiles; a row whose value equals a bound is
\* not returned, and a column holding one repeated value yields no outlier.
C1_ExactlyTheRowsOutsideTheFences ==
    (Studied /\ pc = "returned") =>
        LET s  == StudiedColumn
            q1 == stats.quants[1]
            q3 == stats.quants[3]
        IN  /\ \A i \in 1..Len(s) :
                 i \in SeqToSet(outliers) <=> (BelowFences(s[i], q1, q3) \/ AboveFences(s[i], q1, q3))
            /\ SeqToSet(outliers) \subseteq 1..Len(s)
            /\ StrictlyIncreasing(outliers)
            /\ \A i \in 1..Len(s) :
                 (Fixed(s[i]) = stats.lowerBound \/ Fixed(s[i]) = stats.upperBound)
                    => i \notin SeqToSet(outliers)
            /\ (\A i, j \in 1..Len(s) : s[i] = s[j]) => outliers = <<>>

\* C1 witness: a call returned an outlier and left out a row lying on a bound.
C1_Witness ==
    /\ Studied /\ pc = "returned"
    /\ outliers # <<>>
    /\ \E i \in 1..Len(StudiedColumn) :
          /\ StudiedColumn[i] # NaN
          /\ Fixed(StudiedColumn[i]) = stats.upperBound \/ Fixed(StudiedColumn[i]) = stats.lowerBound
          /\ i \notin SeqToSet(outliers)

\* C2: for a column with at least one value, q1 <= q2 <= q3, iqr = q3 - q1 >= 0
\* and lowerBound <= q2 <= upperBound, so no row holding the median value is
\* returned as an outlier.
C2_QuartilesOrdered ==
    (Studied /\ pc = "returned" /\ Present(StudiedColumn)) =>
        LET q == stats.quants
        IN  /\ q[1] # NaN /\ q[2] # NaN /\ q[3] # NaN
            /\ q[1] <= q[2] /\ q[2] <= q[3]
            /\ stats.iqr = q[3] - q[1] /\ stats.iqr >= 0
            /\ stats.lowerBound <= q[2] /\ q[2] <= stats.upperBound
            /\ \A i \in SeqToSet(outliers) : Fixed(StudiedColumn[i]) # q[2]

\* C2 witness: the three quartiles differ, a row holds the median, and another
\* row is an outlier.
C2_Witness ==
    /\ Studied /\ pc = "returned"
    /\ Present(StudiedColumn)
    /\ stats.quants[1] < stats.quants[2] /\ stats.quants[2] < stats.quants[3]
    /\ \E i \in 1..Len(StudiedColumn) : Fixed(StudiedColumn[i]) = stats.quants[2]
    /\ outliers # <<>>

\* C3: quartiles interpolate linearly at position p*(n-1) of the sorted column:
\* for [1,2,3,4,5,100] q1 = 2.25, q3 = 4.75, iqr = 2.5, upper bound = 8.5, and
\* the row holding 100 is the only row returned, no row being a low outlier.
C3_WorkedExample ==
    (Studied /\ pc = "returned" /\ StudiedColumn = <<1, 2, 3, 4, 5, 100>>) =>
        /\ 4 * stats.quants[1] = 9 * Scale
        /\ 4 * stats.quants[3] = 19 * Scale
        /\ 2 * stats.iqr = 5 * Scale
        /\ 2 * stats.upperBound = 17 * Scale
        /\ outliers = <<6>>
        /\ \A i \in 1..6 : ~(Fixed(StudiedColumn[i]) < stats.lowerBound)

\* C3 witness: the call on the example column returned.
C3_Witness ==
    /\ Studied /\ pc = "returned"
    /\ StudiedColumn = <<1, 2, 3, 4, 5, 100>>
    /\ outliers = <<6>>

\* The rows of column s that are low outliers, high outliers, neither.
LowRows(s) ==
    LET q1 == Quantile(s, 1)
        q3 == Quantile(s, 3)
    IN  { i \in 1..Len(s) : BelowFences(s[i], q1, q3) }

HighRows(s) ==
    LET q1 == Quantile(s, 1)
        q3 == Quantile(s, 3)
    IN  { i \in 1..Len(s) : AboveFences(s[i], q1, q3) }

OtherRows(s) == (1..Len(s)) \ (LowRows(s) \cup HighRows(s))

\* C4: every row is exactly one of low outlier, high outlier, non-outlier; the
\* high count plus the low count count_outliers_per_column reports for a column
\* is the number of rows study_column_continuous returns for it, and with the
\* non-outlier rows they sum to the row count.
C4_Partition ==
    /\ (Studied /\ pc = "returned") =>
          LET s == StudiedColumn
          IN  /\ LowRows(s) \cap HighRows(s) = {}
              /\ SeqToSet(outliers) = LowRows(s) \cup HighRows(s)
              /\ Len(outliers) = NumHighOutliers(s) + NumLowOutliers(s)
              /\ Len(outliers) + Cardinality(OtherRows(s)) = LenDf(df)
    /\ (Counted /\ pc = "returned") =>
          \A r \in 1..Len(report.rows) :
             LET row == report.rows[r]
                 s   == df[row["Column"]]
                 q   == Quants(s)
                 high == row["Number of High outliers"]
                 low  == row["Number of Low outliers"]
             IN  /\ high = Cardinality(HighRows(s))
                 /\ low = Cardinality(LowRows(s))
                 /\ high + low = Len(OutlierRows(s, LowerBound(q), UpperBound(q)))
                 /\ high + low + Cardinality(OtherRows(s)) = LenDf(df)

\* C4 witness: the count reports a column with a low or high outlier and rows
\* that are none.
C4_Witness ==
    /\ Counted /\ pc = "returned"
    /\ \E r \in 1..Len(report.rows) :
          /\ report.rows[r]["Number of High outliers"] + report.rows[r]["Number of Low outliers"] > 0
          /\ OtherRows(df[report.rows[r]["Column"]]) # {}

\* C7: |skew| > 1 prints "highly skewed", 0.5 < |skew| <= 1 prints "moderately
\* skewed" (so do 1 and -1), and every other value, 0.5 and -0.5 among them,
\* falls in the remaining category, for which neither line is printed.
C7_SkewClassification ==
    (Studied /\ call.skew /\ stats.skew # NaN) =>
        LET a == IF stats.skew < 0 THEN -stats.skew ELSE stats.skew
        IN  /\ a > SkewUnit => stdout = <<HighlySkewed>>
            /\ (2 * a > SkewUnit /\ a <= SkewUnit) => stdout = <<ModeratelySkewed>>
            /\ 2 * a <= SkewUnit => stdout = <<>>

\* C7 witness: a skew of exactly -1 was classified.
C7_Witness ==
    /\ Studied /\ call.skew
    /\ stats.skew = -SkewUnit
    /\ stdout = <<ModeratelySkewed>>

\* C5: count_outliers_per_column on a table of 0 rows with numeric-typed
\* columns returns an empty result and raises nothing.
C5_EmptyTableReturnsEmpty ==
    (Counted /\ LenDf(df) = 0 /\ NumericColumns # <<>>) =>
        (pc = "returned" /\ exc = "" /\ report.rows = <<>>)

\* A numeric column of the table with at least one row and every value missing.
AllMissing(s) == Len(s) >= 1 /\ ~Present(s)

\* C6: when a column has rows and every value in it is missing, the outlier
\* computation ends with an error and reports no outlier count for it.
C6_AllMissingColumnRaises ==
    /\ (Studied /\ pc # "ready" /\ AllMissing(StudiedColumn)) => pc = "raised"
    /\ (Counted /\ pc # "ready" /\ \E c \in SeqToSet(NumericColumns) : AllMissing(df[c]))
          => pc = "raised"

\* C8: plot_outliers_per_column runs to completion without error and draws one
\* bar chart for the high and one for the low outliers (stated here for the
\* tables with at least one row, where count_outliers_per_column returns).
C8_PlotCompletes ==
    (call.fn = "plot_outliers_per_column" /\ LenDf(df) > 0) =>
        (pc = "returned" /\ exc = "" /\ Len(charts) = Len(Types))

\* C9: the columns of the returned table are the columns it was created with,
\* and every row holds a value in each of them.
C9_HeaderMatchesRecords ==
    (Counted /\ pc = "returned") =>
        /\ report.columns = ReportHeader
        /\ \A r \in 1..Len(report.rows) : DOMAIN report.rows[r] = SeqToSet(report.columns)

\* C10: without a target, every bar of study_column_discrete pairs a distinct
\* value of the column with the number of rows holding that value.
C10_BarsPairValueWithItsCount ==
    (call.fn = "study_column_discrete" /\ call.target = "" /\ pc = "returned") =>
        \A c \in 1..Len(charts) : \A b \in 1..Len(charts[c].bars) :
            charts[c].bars[b][2] = Occurrences(df[call.col], charts[c].bars[b][1])

====
